---- MODULE Spec2Model ----
(***************************************************************************)
(* HealthCare-AdvisorAgent: the session log store, the provenance filter   *)
(* and the /diagnose interaction flow, as a state machine.                 *)
(*                                                                         *)
(* Text is a sequence of lines (what split('\n') yields).  A line is a     *)
(* record [t, o, n]: t is the line's characters, n the number embedded in  *)
(* it (a timestamp or a user id, 0 otherwise) and o the origin of the      *)
(* characters ("sys" for template text, "symptoms", "health", "model",     *)
(* "raw").  The code never looks at o; it is carried along to state the    *)
(* provenance properties.                                                  *)
(***************************************************************************)
EXTENDS Integers, Sequences, FiniteSets, TLC

\* ------------------------------------------------------------------ bounds
MaxBodyLen == 4      \* lines of an arbitrary raw log fed to the filter
MaxChunks  == 2      \* chunks one model stream produces
MaxStarted == 2      \* requests served in one run
MaxClock   == 1      \* last value of the wall clock

\* ------------------------------------------------------------------- lines
Ln(t, o, n) == [t |-> t, o |-> o, n |-> n]
Blank       == Ln("", "sys", 0)
Separator   == Ln("---", "sys", 0)
SessionHistoryLabel == Ln("## Session History", "sys", 0)
SymptomsMarker  == Ln("**Symptoms Reported:**", "sys", 0)
HealthMarker    == Ln("**Additional Health Context:**", "sys", 0)
DiagnosisMarker == Ln("**Diagnosis & Recommendations:**", "sys", 0)

\* the characters of a text, without the origin annotation
Chars(text) == [i \in 1..Len(text) |-> <<text[i].t, text[i].n>>]

\* line.match(/^### Session/)
MatchesSessionStart(line) == line.t \in {"### Session", "### Session notes"}
\* line.includes('**Symptoms Reported:**')
IncludesSymptomsMarker(line) ==
    line.t \in {"**Symptoms Reported:**", "# Medical History - User **Symptoms Reported:**",
                "**Symptoms Reported:** **Diagnosis & Recommendations:**"}
\* line.includes('**Additional Health Context:**')
IncludesHealthMarker(line) == line.t \in {"**Additional Health Context:**"}
\* line.includes('**Diagnosis & Recommendations:**')
IncludesDiagnosisMarker(line) ==
    line.t \in {"**Diagnosis & Recommendations:**",
                "# Medical History - User **Diagnosis & Recommendations:**",
                "**Symptoms Reported:** **Diagnosis & Recommendations:**"}
\* line.trim() === '---'
IsSeparatorLine(line) == line.t \in {"---", "  ---"}
\* /^# Medical History[^\n]*/ on one line
StartsWithMedicalHistory(line) ==
    line.t \in {"# Medical History - User", "# Medical History - User **Symptoms Reported:**",
                "# Medical History - User **Diagnosis & Recommendations:**"}
\* /\*\*Created:\*\*[^\n]*/ anchored at the start of a line
StartsWithCreated(line) == line.t \in {"**Created:**"}

\* JavaScript truthiness of a string value; << >> is undefined
Truthy(text) == Len(text) > 0 /\ ~(Len(text) = 1 /\ text[1].t = "")

\* a + b on strings, seen line by line
LineCat(x, y) ==
    IF y.t = "" THEN x
    ELSE IF x.t = "" THEN y
    ELSE [t |-> x.t \o y.t, o |-> x.o, n |-> x.n]
TextCat(a, b) ==
    IF Len(a) = 0 THEN b
    ELSE IF Len(b) = 0 THEN a
    ELSE SubSeq(a, 1, Len(a) - 1) \o <<LineCat(a[Len(a)], b[1])>> \o Tail(b)

\* ------------------------------------------------- extractUserProvidedHistory
ScanStart ==
    [userProvidedSections |-> << >>, currentSession |-> << >>,
     inSymptomsSection |-> FALSE, inHealthContextSection |-> FALSE,
     inDiagnosisSection |-> FALSE]

\* one iteration of the for loop
ScanLineSymptomsKeepsDiagnosis(st, line) ==
    IF MatchesSessionStart(line) THEN
        [userProvidedSections |->
            IF Len(st.currentSession) > 0
            THEN Append(st.userProvidedSections, st.currentSession)
            ELSE st.userProvidedSections,
         currentSession |-> <<line>>,
         inSymptomsSection |-> FALSE, inHealthContextSection |-> FALSE,
         inDiagnosisSection |-> FALSE]
    ELSE IF IncludesSymptomsMarker(line) THEN
        [st EXCEPT !.inSymptomsSection = TRUE, !.inHealthContextSection = FALSE,
                   !.currentSession = Append(@, line)]
    ELSE IF IncludesHealthMarker(line) THEN
        [st EXCEPT !.inSymptomsSection = FALSE, !.inHealthContextSection = TRUE,
                   !.inDiagnosisSection = FALSE,
                   !.currentSession = Append(@, line)]
    ELSE IF IncludesDiagnosisMarker(line) THEN
        [st EXCEPT !.inSymptomsSection = FALSE, !.inHealthContextSection = FALSE,
                   !.inDiagnosisSection = TRUE]
    ELSE IF IsSeparatorLine(line) THEN
        [st EXCEPT !.inSymptomsSection = FALSE, !.inHealthContextSection = FALSE,
                   !.inDiagnosisSection = FALSE]
    ELSE IF st.inSymptomsSection \/ st.inHealthContextSection THEN
        [st EXCEPT !.currentSession = Append(@, line)]
    ELSE st
ScanLineMissingDiagnosisBranch(st, line) ==
    IF MatchesSessionStart(line) THEN
        [userProvidedSections |->
            IF Len(st.currentSession) > 0
            THEN Append(st.userProvidedSections, st.currentSession)
            ELSE st.userProvidedSections,
         currentSession |-> <<line>>,
         inSymptomsSection |-> FALSE, inHealthContextSection |-> FALSE,
         inDiagnosisSection |-> FALSE]
    ELSE IF IncludesSymptomsMarker(line) THEN
        [st EXCEPT !.inSymptomsSection = TRUE, !.inHealthContextSection = FALSE,
                   !.inDiagnosisSection = FALSE,
                   !.currentSession = Append(@, line)]
    ELSE IF IncludesHealthMarker(line) THEN
        [st EXCEPT !.inSymptomsSection = FALSE, !.inHealthContextSection = TRUE,
                   !.inDiagnosisSection = FALSE,
                   !.currentSession = Append(@, line)]
    ELSE IF IsSeparatorLine(line) THEN
        [st EXCEPT !.inSymptomsSection = FALSE, !.inHealthContextSection = FALSE,
                   !.inDiagnosisSection = FALSE]
    ELSE IF st.inSymptomsSection \/ st.inHealthContextSection THEN
        [st EXCEPT !.currentSession = Append(@, line)]
    ELSE st
ScanLineSeparatorKeepsSection(st, line) ==
    IF MatchesSessionStart(line) THEN
        [userProvidedSections |->
            IF Len(st.currentSession) > 0
            THEN Append(st.userProvidedSections, st.currentSession)
            ELSE st.userProvidedSections,
         currentSession |-> <<line>>,
         inSymptomsSection |-> FALSE, inHealthContextSection |-> FALSE,
         inDiagnosisSection |-> FALSE]
    ELSE IF IncludesSymptomsMarker(line) THEN
        [st EXCEPT !.inSymptomsSection = TRUE, !.inHealthContextSection = FALSE,
                   !.inDiagnosisSection = FALSE,
                   !.currentSession = Append(@, line)]
    ELSE IF IncludesHealthMarker(line) THEN
        [st EXCEPT !.inSymptomsSection = FALSE, !.inHealthContextSection = TRUE,
                   !.inDiagnosisSection = FALSE,
                   !.currentSession = Append(@, line)]
    ELSE IF IncludesDiagnosisMarker(line) THEN
        [st EXCEPT !.inSymptomsSection = FALSE, !.inHealthContextSection = FALSE,
                   !.inDiagnosisSection = TRUE]
    ELSE IF IsSeparatorLine(line) THEN st
    ELSE IF st.inSymptomsSection \/ st.inHealthContextSection THEN
        [st EXCEPT !.currentSession = Append(@, line)]
    ELSE st
ScanLine(st, line) ==
    IF MatchesSessionStart(line) THEN
        [userProvidedSections |->
            IF Len(st.currentSession) > 0
            THEN Append(st.userProvidedSections, st.currentSession)
            ELSE st.userProvidedSections,
         currentSession |-> <<line>>,
         inSymptomsSection |-> FALSE, inHealthContextSection |-> FALSE,
         inDiagnosisSection |-> FALSE]
    ELSE IF IncludesSymptomsMarker(line) THEN
        [st EXCEPT !.inSymptomsSection = TRUE, !.inHealthContextSection = FALSE,
                   !.inDiagnosisSection = FALSE,
                   !.currentSession = Append(@, line)]
    ELSE IF IncludesHealthMarker(line) THEN
        [st EXCEPT !.inSymptomsSection = FALSE, !.inHealthContextSection = TRUE,
                   !.inDiagnosisSection = FALSE,
                   !.currentSession = Append(@, line)]
    ELSE IF IncludesDiagnosisMarker(line) THEN
        [st EXCEPT !.inSymptomsSection = FALSE, !.inHealthContextSection = FALSE,
                   !.inDiagnosisSection = TRUE]
    ELSE IF IsSeparatorLine(line) THEN
        [st EXCEPT !.inSymptomsSection = FALSE, !.inHealthContextSection = FALSE,
                   !.inDiagnosisSection = FALSE]
    ELSE IF st.inSymptomsSection \/ st.inHealthContextSection THEN
        [st EXCEPT !.currentSession = Append(@, line)]
    ELSE st

RECURSIVE ScanFrom(_, _, _)
ScanFrom(st, lines, i) ==
    IF i > Len(lines) THEN st ELSE ScanFrom(ScanLine(st, lines[i]), lines, i + 1)

\* "Add last session if it exists and doesn't end in diagnosis section"
FlushLastAlways(st) ==
    IF Len(st.currentSession) > 0
    THEN Append(st.userProvidedSections, st.currentSession)
    ELSE st.userProvidedSections
FlushLast(st) ==
    IF Len(st.currentSession) > 0 /\ ~st.inDiagnosisSection
    THEN Append(st.userProvidedSections, st.currentSession)
    ELSE st.userProvidedSections

\* markdownContent.match(/^# Medical History[^\n]*\n\n\*\*Created:\*\*[^\n]*/)
HeaderMatches(md) ==
    /\ Len(md) >= 3
    /\ StartsWithMedicalHistory(md[1])
    /\ md[2].t = ""
    /\ StartsWithCreated(md[3])
Header(md) == IF HeaderMatches(md) THEN SubSeq(md, 1, 3) ELSE <<Blank>>

\* userProvidedSections.join('\n\n---\n\n'), for a non-empty list
RECURSIVE JoinSections(_)
JoinSections(secs) ==
    IF Len(secs) = 1 THEN secs[1]
    ELSE secs[1] \o <<Blank, Separator, Blank>> \o JoinSections(Tail(secs))

\* the two return statements
ReconstructOmitsLabelWhenEmpty(md, secs) ==
    IF Len(secs) = 0 THEN Header(md) \o <<Blank, Separator, Blank, Blank>>
    ELSE Header(md) \o <<Blank, Separator, Blank, SessionHistoryLabel, Blank>>
            \o JoinSections(secs) \o <<Blank, Blank>>
Reconstruct(md, secs) ==
    Header(md) \o <<Blank, Separator, Blank, SessionHistoryLabel, Blank>>
        \o (IF Len(secs) = 0 THEN <<Blank>>
            ELSE JoinSections(secs) \o <<Blank, Blank>>)

Sections(md) == FlushLast(ScanFrom(ScanStart, md, 1))
extractUserProvidedHistory(md) == Reconstruct(md, Sections(md))

\* ------------------------------------------------------------ the log store
\* loadUserHistory's initialContent for a log created at time ts
initialContent(userId, ts) ==
    << Ln("# Medical History - User", "sys", userId), Blank,
       Ln("**Created:**", "sys", ts), Blank, Separator, Blank,
       SessionHistoryLabel, Blank, Blank >>

\* appendToUserHistory's sessionEntry template
sessionEntryReversedClock(ts, symptoms, diagnosis, healthHistory) ==
    << Blank, Ln("### Session", "sys", MaxClock - ts), Blank, SymptomsMarker >>
        \o symptoms \o <<Blank>>
        \o (IF Truthy(healthHistory) THEN <<HealthMarker>> \o healthHistory ELSE << >>)
        \o << Blank, Blank, DiagnosisMarker >>
        \o diagnosis \o << Blank, Separator, Blank, Blank >>
sessionEntryNoSessionLine(ts, symptoms, diagnosis, healthHistory) ==
    << Blank, Blank, SymptomsMarker >>
        \o symptoms \o <<Blank>>
        \o (IF Truthy(healthHistory) THEN <<HealthMarker>> \o healthHistory ELSE << >>)
        \o << Blank, Blank, DiagnosisMarker >>
        \o diagnosis \o << Blank, Separator, Blank, Blank >>
sessionEntryAlwaysHealthSection(ts, symptoms, diagnosis, healthHistory) ==
    << Blank, Ln("### Session", "sys", ts), Blank, SymptomsMarker >>
        \o symptoms \o <<Blank>>
        \o <<HealthMarker>> \o healthHistory
        \o << Blank, Blank, DiagnosisMarker >>
        \o diagnosis \o << Blank, Separator, Blank, Blank >>
sessionEntry(ts, symptoms, diagnosis, healthHistory) ==
    << Blank, Ln("### Session", "sys", ts), Blank, SymptomsMarker >>
        \o symptoms \o <<Blank>>
        \o (IF Truthy(healthHistory) THEN <<HealthMarker>> \o healthHistory ELSE << >>)
        \o << Blank, Blank, DiagnosisMarker >>
        \o diagnosis \o << Blank, Separator, Blank, Blank >>

\* providedUserId || randomUUID(); 0 is an absent or empty userId
ensureUserId(providedUserId, uuid) ==
    IF providedUserId # 0 THEN providedUserId ELSE uuid

\* ------------------------------------------------------------------ inputs
Slots      == {1, 2}                \* handlers that can be in flight together
ClientIds  == {1, 4}                \* identifiers a caller supplies: "1" and "x/../1"
Uuids      == {2, 3}                \* values randomUUID() can return
UserIds    == ClientIds \cup Uuids
\* path.join(USER_DATA_DIR, `${userId}.md`): the file an identifier names;
\* path.join normalises the path, so "x/../1" names the file of "1"
filePath(userId) == IF userId = 4 THEN 1 ELSE userId
Paths      == {filePath(u) : u \in UserIds}
NoFile     == << >>

Cough      == Ln("cough", "symptoms", 0)
Fever      == Ln("fever", "symptoms", 0)
Asthma     == Ln("asthma", "health", 0)
EmptyResponse == << Ln("", "model", 0) >>

PostRequest(ep, symptoms, healthHistory, userId) ==
    [ep |-> ep, symptoms |-> symptoms, healthHistory |-> healthHistory, userId |-> userId]
\* the POST requests callers send: endpoint and req.body; << >> is a missing
\* field and userId 0 a missing or empty userId
PostRequests ==
    { PostRequest("diagnose", << >>, << >>, 0),                              \* {}
      PostRequest("diagnose-test", << Ln("", "symptoms", 0) >>, << Asthma >>, 1), \* symptoms: ""
      PostRequest("diagnose", << Cough >>, << >>, 0),                        \* "cough", new user
      PostRequest("diagnose-test",
                  << Cough, Ln("---", "symptoms", 0), Fever >>, << Asthma >>, 1) }
                                                          \* "cough\n---\nfever", user 1
\* delta.content of the k-th chunk of a stream: undefined, "Based on <k>\n",
\* or "**Symptoms Reported:**\nTake <k> aspirin\n"
ChunkContents(k) ==
    { << >>,
      << Ln("Based on", "model", k), Ln("", "model", 0) >>,
      << Ln("**Symptoms Reported:**", "model", 0), Ln("Take aspirin", "model", k),
         Ln("", "model", 0) >> }

\* ------------------------------------------------------------------- state
VARIABLES files,     \* file path -> text of the file, or NoFile
          entries,   \* history: the entries appended to a log since its creation
          seen,      \* history: the identifiers used so far
          now,       \* the wall clock
          started,   \* requests received so far
          req,       \* slot -> the request handled there
          fPc, fIn, fPos, fSt, fOut, fOut2,  \* a stand-alone run of the filter
          env,       \* process.env: EVM_ADDRESS and OPENROUTER_API_KEY
          boot,      \* how far the top-level code of server.ts has run
          dir        \* USER_DATA_DIR: "absent", "present", or "failed" when
                     \* mkdir was rejected and the error logged

vars == <<files, entries, seen, now, started, req, fPc, fIn, fPos, fSt, fOut, fOut2, env, boot,
          dir>>
filterVars == <<fPc, fIn, fPos, fSt, fOut, fOut2>>
serverVars == <<files, entries, seen, now, started, req>>
bootVars == <<env, boot, dir>>

\* one res.write / res.json / res.send: its fixed text k, the text, number and
\* error message interpolated into it
W(k, text, n, msg) == [k |-> k, text |-> text, n |-> n, msg |-> msg]

\* string length of a text ("\n" between lines, one digit and a blank for an
\* embedded number)
RECURSIVE CharCount(_)
CharCount(text) ==
    IF Len(text) = 0 THEN 0
    ELSE Len(text[1].t) + (IF text[1].n > 0 THEN 2 ELSE 0)
         + (IF Len(text) > 1 THEN 1 ELSE 0) + CharCount(Tail(text))

IdleRequest ==
    [pc |-> "idle", ep |-> "none", symptoms |-> << >>, healthHistory |-> << >>,
     userId |-> 0, effectiveUserId |-> 0, pending |-> << >>,
     fullHistoryMd |-> << >>, userProvidedHistory |-> << >>,
     response |-> << >>, chunkCount |-> 0, status |-> 0, out |-> << >>,
     \* history, not program state:
     serial |-> 0,            \* the request's number in arrival order
     outcome |-> "none",      \* how the handler ended, and why
     existedAtRead |-> FALSE, \* readFile failed although the log existed
     dirty |-> FALSE,         \* another handler wrote the log after this one loaded it
     modelCalls |-> 0,        \* calls of openRouter.chat.send
     produced |-> << >>,      \* delta.content of the chunks taken from the stream
     nAppends |-> 0]          \* calls of appendToUserHistory

InitServer ==
    /\ files = [u \in Paths |-> NoFile]
    /\ entries = [u \in Paths |-> << >>]
    /\ seen = {}
    /\ now = 0
    /\ started = 0
    /\ req = [r \in Slots |-> IdleRequest]

FilterOff ==
    /\ fPc = "off" /\ fIn = << >> /\ fPos = 0 /\ fSt = ScanStart
    /\ fOut = << >> /\ fOut2 = << >>

\* values of an environment variable: not set, set to "", set to a value
EnvValues == {"unset", "", "set"}
\* "!value" of an environment variable
EnvMissing(value) == value \in {"unset", ""}

\* the process starts: nothing of server.ts has run yet
InitProcess ==
    /\ env \in [EVM_ADDRESS : EnvValues, OPENROUTER_API_KEY : EnvValues]
    /\ boot = "start"
    /\ dir = "absent"

Init == InitProcess /\ InitServer /\ FilterOff

\* ------------------------------------------------------------------ startup
\* if (!evmAddress) { console.error(...); process.exit(1); }
CheckEvmAddress ==
    /\ boot = "start"
    /\ boot' = IF EnvMissing(env.EVM_ADDRESS) THEN "exited" ELSE "addressChecked"
    /\ UNCHANGED <<env, dir, serverVars, filterVars>>

\* if (!process.env.OPENROUTER_API_KEY) { console.error(...); process.exit(1); }
CheckApiKeyLogsOnly ==
    /\ boot = "addressChecked"
    /\ boot' = "configured"
    /\ UNCHANGED <<env, dir, serverVars, filterVars>>
CheckApiKey ==
    /\ boot = "addressChecked"
    /\ boot' = IF EnvMissing(env.OPENROUTER_API_KEY) THEN "exited" ELSE "configured"
    /\ UNCHANGED <<env, dir, serverVars, filterVars>>

\* the rest of the top-level code: middleware and routes are registered and
\* app.listen is called
Listen ==
    /\ boot = "configured"
    /\ boot' = "listening"
    /\ UNCHANGED <<env, dir, serverVars, filterVars>>

\* initializeUserDataDir(), called without await before app.listen: fs.mkdir
\* resolves once the top-level code has run
InitializeUserDataDirOk ==
    /\ boot = "listening" /\ dir = "absent"
    /\ dir' = "present"
    /\ UNCHANGED <<env, boot, serverVars, filterVars>>

\* fs.mkdir rejects: the catch block logs the error and returns
InitializeUserDataDirFailsExits ==
    /\ boot = "listening" /\ dir = "absent"
    /\ dir' = "failed" /\ boot' = "exited"
    /\ UNCHANGED <<env, serverVars, filterVars>>
InitializeUserDataDirFails ==
    /\ boot = "listening" /\ dir = "absent"
    /\ dir' = "failed"
    /\ UNCHANGED <<env, boot, serverVars, filterVars>>

\* req with the handlers marked whose loaded log, the file u, another handler
\* r now writes
MarkDirty(r, u) ==
    [q \in Slots |->
        IF q # r /\ filePath(req[q].effectiveUserId) = u
           /\ req[q].pc \in {"sending", "streaming", "appending", "done"}
        THEN [req[q] EXCEPT !.dirty = TRUE] ELSE req[q]]

\* crypto.randomUUID(): a value never returned or seen before (which one is
\* immaterial, so the least unused one stands for all)
randomUUID == CHOOSE u \in Uuids \ seen : \A v \in Uuids \ seen : u <= v

\* a request is taken by the first free handler slot
FirstIdle(r) == req[r].pc = "idle" /\ \A q \in Slots : q < r => req[q].pc # "idle"

\* ------------------------------------------------------ POST /diagnose(-test)
\* "!symptoms"
SymptomsMissingOnlyUndefined(symptoms) == Len(symptoms) = 0
SymptomsMissing(symptoms) == ~Truthy(symptoms)

\* the x402 payment middleware answers itself; the handler never runs
PaymentBlockedAfterRoute(r) ==
    /\ boot = "listening"
    /\ FirstIdle(r) /\ started < MaxStarted
    /\ \E body \in PostRequests :
         /\ body.ep = "diagnose"
         /\ ~SymptomsMissing(body.symptoms)
         /\ body.userId = 0 => Uuids \ seen # {}
         /\ LET effectiveUserId == ensureUserId(body.userId, randomUUID) IN
            /\ req' = [req EXCEPT ![r] =
                    [@ EXCEPT !.pc = "reading", !.ep = "diagnose", !.symptoms = body.symptoms,
                              !.healthHistory = body.healthHistory, !.userId = body.userId,
                              !.serial = started + 1,
                              !.status = 402, !.outcome = "payment_required",
                              !.effectiveUserId = effectiveUserId]]
            /\ seen' = seen \cup {effectiveUserId}
    /\ started' = started + 1
    /\ UNCHANGED <<files, entries, now, filterVars, bootVars>>
PaymentBlocked(r) ==
    /\ boot = "listening"
    /\ FirstIdle(r) /\ started < MaxStarted
    /\ \E body \in PostRequests :
         /\ body.ep = "diagnose"
         /\ req' = [req EXCEPT ![r] =
                    [@ EXCEPT !.pc = "done", !.ep = "diagnose", !.symptoms = body.symptoms,
                              !.healthHistory = body.healthHistory, !.userId = body.userId,
                              !.serial = started + 1,
                              !.status = 402, !.outcome = "payment_required"]]
    /\ started' = started + 1
    /\ UNCHANGED <<files, entries, seen, now, filterVars, bootVars>>

\* the 400 answer of the handler
DiagnoseReject(r) ==
    /\ boot = "listening"
    /\ FirstIdle(r) /\ started < MaxStarted
    /\ \E body \in PostRequests :
         /\ SymptomsMissing(body.symptoms)
         /\ req' = [req EXCEPT ![r] =
                    [@ EXCEPT !.pc = "done", !.ep = body.ep, !.symptoms = body.symptoms,
                              !.healthHistory = body.healthHistory, !.userId = body.userId,
                              !.serial = started + 1,
                              !.status = 400, !.outcome = "input_error",
                              !.out = <<W("error: Symptoms are required", << >>, 0, "")>>]]
    /\ started' = started + 1
    /\ UNCHANGED <<files, entries, seen, now, filterVars, bootVars>>

\* the handler up to its first await: ensureUserId, then readFile is issued
DiagnoseAccept(r) ==
    /\ boot = "listening"
    /\ FirstIdle(r) /\ started < MaxStarted
    /\ \E body \in PostRequests :
         /\ ~SymptomsMissing(body.symptoms)
         /\ body.userId = 0 => Uuids \ seen # {}
         /\ LET effectiveUserId == ensureUserId(body.userId, randomUUID) IN
            /\ req' = [req EXCEPT ![r] =
                    [@ EXCEPT !.pc = "reading", !.ep = body.ep, !.symptoms = body.symptoms,
                              !.healthHistory = body.healthHistory, !.userId = body.userId,
                              !.serial = started + 1,
                              !.effectiveUserId = effectiveUserId]]
            /\ seen' = seen \cup {effectiveUserId}
    /\ started' = started + 1
    /\ UNCHANGED <<files, entries, now, filterVars, bootVars>>

\* GET /history/:userId up to its first await
HistoryRequest(r) ==
    /\ boot = "listening"
    /\ FirstIdle(r) /\ started < MaxStarted
    /\ \E userId \in ClientIds \cup seen :
         /\ req' = [req EXCEPT ![r] =
                    [@ EXCEPT !.pc = "reading", !.ep = "history", !.userId = userId,
                              !.serial = started + 1,
                              !.effectiveUserId = userId]]
         /\ seen' = seen \cup {userId}
    /\ started' = started + 1
    /\ UNCHANGED <<files, entries, now, filterVars, bootVars>>

\* what the handler does with the text loadUserHistory returned, up to the
\* next await (chat.send for the interaction, nothing for the history read)
AfterLoad(rq, content) ==
    IF rq.ep = "history"
    THEN [rq EXCEPT !.pc = "done", !.pending = << >>, !.status = 200, !.outcome = "history",
                    !.fullHistoryMd = content,
                    !.out = <<W("text/markdown", content, 0, "")>>]
    ELSE [rq EXCEPT !.pc = "sending", !.pending = << >>, !.fullHistoryMd = content,
                    !.userProvidedHistory = extractUserProvidedHistory(content),
                    !.modelCalls = @ + 1]

\* loadUserHistory: fs.readFile resolves
ReadFileOk(r) ==
    /\ req[r].pc = "reading"
    /\ files[filePath(req[r].effectiveUserId)] # NoFile
    /\ req' = [req EXCEPT ![r] = AfterLoad(@, files[filePath(req[r].effectiveUserId)])]
    /\ UNCHANGED <<files, entries, seen, now, started, filterVars, bootVars>>

\* loadUserHistory: fs.readFile rejects (no such file, or any other error);
\* the catch block builds initialContent and issues writeFile
ReadFileFails(r) ==
    /\ req[r].pc = "reading"
    /\ req' = [req EXCEPT ![r] =
                [@ EXCEPT !.pc = "writing",
                          !.existedAtRead = (files[filePath(req[r].effectiveUserId)] # NoFile),
                          !.pending = initialContent(req[r].effectiveUserId, now)]]
    /\ UNCHANGED <<files, entries, seen, now, started, filterVars, bootVars>>

\* loadUserHistory: fs.writeFile resolves; the file now holds initialContent
\* (without the directory fs.writeFile rejects)
WriteFileOk(r) ==
    /\ req[r].pc = "writing"
    /\ dir = "present"
    /\ LET u == filePath(req[r].effectiveUserId) IN
        /\ files' = [files EXCEPT ![u] = req[r].pending]
        /\ entries' = [entries EXCEPT ![u] = << >>]
        /\ req' = [MarkDirty(r, u) EXCEPT ![r] = AfterLoad(req[r], req[r].pending)]
    /\ UNCHANGED <<seen, now, started, filterVars, bootVars>>

\* loadUserHistory: fs.writeFile rejects; the error reaches the outer catch of
\* the handler
WriteFileFails(r) ==
    /\ req[r].pc = "writing"
    /\ req' = [req EXCEPT ![r] =
                [@ EXCEPT !.pc = "done", !.pending = << >>, !.status = 500,
                          !.outcome = "load_error",
                          !.out = <<W(IF req[r].ep = "history"
                                      THEN "error: Failed to load history"
                                      ELSE "error: Internal server error",
                                      << >>, 0, "EACCES: permission denied")>>]]
    /\ UNCHANGED <<files, entries, seen, now, started, filterVars, bootVars>>

\* openRouter.chat.send resolves with a stream; headers set, response = ""
ChatSendOk(r) ==
    /\ req[r].pc = "sending"
    /\ req' = [req EXCEPT ![r] =
                [@ EXCEPT !.pc = "streaming", !.response = EmptyResponse,
                          !.chunkCount = 0, !.status = 200]]
    /\ UNCHANGED <<files, entries, seen, now, started, filterVars, bootVars>>

\* openRouter.chat.send rejects; the error reaches the outer catch
ChatSendFails(r) ==
    /\ req[r].pc = "sending"
    /\ req' = [req EXCEPT ![r] =
                [@ EXCEPT !.pc = "done", !.status = 500, !.outcome = "send_error",
                          !.out = <<W("error: Internal server error", << >>, 0,
                                      "provider error")>>]]
    /\ UNCHANGED <<files, entries, seen, now, started, filterVars, bootVars>>

\* one iteration of "for await (const chunk of stream)"
StreamChunkOverwritesResponse(r) ==
    /\ req[r].pc = "streaming"
    /\ req[r].chunkCount < MaxChunks
    /\ \E content \in ChunkContents(req[r].chunkCount + 1) :
         req' = [req EXCEPT ![r] =
                    IF Truthy(content)
                    THEN [@ EXCEPT !.chunkCount = @ + 1,
                                   !.produced = Append(@, content),
                                   !.response = content,
                                   !.out = Append(@, W("chunk", content, 0, ""))]
                    ELSE [@ EXCEPT !.chunkCount = @ + 1,
                                   !.produced = Append(@, content)]]
    /\ UNCHANGED <<files, entries, seen, now, started, filterVars, bootVars>>
StreamChunkWritesAhead(r) ==
    /\ req[r].pc = "streaming"
    /\ req[r].chunkCount < MaxChunks
    /\ \E content \in ChunkContents(req[r].chunkCount + 1) :
         req' = [req EXCEPT ![r] =
                    IF Truthy(content)
                    THEN [@ EXCEPT !.chunkCount = @ + 1,
                                   !.produced = Append(@, content),
                                   !.response = TextCat(@, content),
                                   !.out = <<W("chunk", content, 0, "")>> \o @]
                    ELSE [@ EXCEPT !.chunkCount = @ + 1,
                                   !.produced = Append(@, content)]]
    /\ UNCHANGED <<files, entries, seen, now, started, filterVars, bootVars>>
StreamChunk(r) ==
    /\ req[r].pc = "streaming"
    /\ req[r].chunkCount < MaxChunks
    /\ \E content \in ChunkContents(req[r].chunkCount + 1) :
         req' = [req EXCEPT ![r] =
                    IF Truthy(content)
                    THEN [@ EXCEPT !.chunkCount = @ + 1,
                                   !.produced = Append(@, content),
                                   !.response = TextCat(@, content),
                                   !.out = Append(@, W("chunk", content, 0, ""))]
                    ELSE [@ EXCEPT !.chunkCount = @ + 1,
                                   !.produced = Append(@, content)]]
    /\ UNCHANGED <<files, entries, seen, now, started, filterVars, bootVars>>

\* what the inner catch block writes before res.end()
ErrorNoticesThenTrailer(rq, streamError) ==
    << W("[Error during streaming]", << >>, 0, streamError) >>
    \o (IF rq.ep = "diagnose"
        THEN << W("[Chunks received before error]", << >>, rq.chunkCount, ""),
                W("[Response length before error]", << >>, CharCount(rq.response), "") >>
        ELSE << >>)
    \o << W("--- USER_ID: ---", << >>, rq.effectiveUserId, "") >>
ErrorNotices(rq, streamError) ==
    << W("[Error during streaming]", << >>, 0, streamError) >>
    \o (IF rq.ep = "diagnose"
        THEN << W("[Chunks received before error]", << >>, rq.chunkCount, ""),
                W("[Response length before error]", << >>, CharCount(rq.response), "") >>
        ELSE << >>)

\* the stream iterator throws
StreamThrowsSavesPartial(r) ==
    /\ req[r].pc = "streaming"
    /\ files' = [files EXCEPT ![filePath(req[r].effectiveUserId)] =
                    TextCat(@, sessionEntry(now, req[r].symptoms, req[r].response,
                                            req[r].healthHistory))]
    /\ req' = [req EXCEPT ![r] =
                [@ EXCEPT !.pc = "done", !.outcome = "stream_error",
                          !.out = @ \o ErrorNotices(req[r], "provider error")]]
    /\ UNCHANGED <<entries, seen, now, started, filterVars, bootVars>>
StreamThrows(r) ==
    /\ req[r].pc = "streaming"
    /\ req' = [req EXCEPT ![r] =
                [@ EXCEPT !.pc = "done", !.outcome = "stream_error",
                          !.out = @ \o ErrorNotices(req[r], "provider error")]]
    /\ UNCHANGED <<files, entries, seen, now, started, filterVars, bootVars>>

\* the stream is exhausted; appendToUserHistory builds sessionEntry and
\* issues appendFile
StreamEndsTrailerBeforeAppend(r) ==
    /\ req[r].pc = "streaming"
    /\ req' = [req EXCEPT ![r] =
                [@ EXCEPT !.pc = "appending", !.nAppends = @ + 1,
                          !.out = Append(@, W("--- USER_ID: ---", << >>,
                                              req[r].effectiveUserId, "")),
                          !.pending = sessionEntry(now, req[r].symptoms, req[r].response,
                                                   req[r].healthHistory)]]
    /\ UNCHANGED <<files, entries, seen, now, started, filterVars, bootVars>>
StreamEnds(r) ==
    /\ req[r].pc = "streaming"
    /\ req' = [req EXCEPT ![r] =
                [@ EXCEPT !.pc = "appending", !.nAppends = @ + 1,
                          !.pending = sessionEntry(now, req[r].symptoms, req[r].response,
                                                   req[r].healthHistory)]]
    /\ UNCHANGED <<files, entries, seen, now, started, filterVars, bootVars>>

\* fs.appendFile resolves; the trailer is written and the response ended
AppendFileOkEchoesRequestId(r) ==
    /\ req[r].pc = "appending"
    /\ LET u == filePath(req[r].effectiveUserId) IN
        /\ files' = [files EXCEPT ![u] = TextCat(@, req[r].pending)]
        /\ entries' = [entries EXCEPT ![u] =
                Append(@, [by |-> req[r].serial, symptoms |-> req[r].symptoms,
                           healthHistory |-> req[r].healthHistory,
                           diagnosis |-> req[r].response])]
        /\ req' = [MarkDirty(r, u) EXCEPT ![r] =
                    [req[r] EXCEPT !.pc = "done", !.pending = << >>, !.outcome = "completed",
                                   !.out = Append(@, W("--- USER_ID: ---", << >>, req[r].userId, ""))]]
    /\ UNCHANGED <<seen, now, started, filterVars, bootVars>>
AppendFileOk(r) ==
    /\ req[r].pc = "appending"
    /\ LET u == filePath(req[r].effectiveUserId) IN
        /\ files' = [files EXCEPT ![u] = TextCat(@, req[r].pending)]
        /\ entries' = [entries EXCEPT ![u] =
                Append(@, [by |-> req[r].serial, symptoms |-> req[r].symptoms,
                           healthHistory |-> req[r].healthHistory,
                           diagnosis |-> req[r].response])]
        /\ req' = [MarkDirty(r, u) EXCEPT ![r] =
                    [req[r] EXCEPT !.pc = "done", !.pending = << >>, !.outcome = "completed",
                                   !.out = Append(@, W("--- USER_ID: ---", << >>,
                                                       req[r].effectiveUserId, ""))]]
    /\ UNCHANGED <<seen, now, started, filterVars, bootVars>>

\* fs.appendFile rejects inside the inner try block: the same catch block
AppendFileFails(r) ==
    /\ req[r].pc = "appending"
    /\ req' = [req EXCEPT ![r] =
                [@ EXCEPT !.pc = "done", !.pending = << >>, !.outcome = "append_error",
                          !.out = @ \o ErrorNotices(req[r], "EACCES: permission denied")]]
    /\ UNCHANGED <<files, entries, seen, now, started, filterVars, bootVars>>

\* the response has been sent; the handler's locals are gone
Close(r) ==
    /\ req[r].pc = "done"
    /\ started < MaxStarted
    /\ req' = [req EXCEPT ![r] = IdleRequest]
    /\ UNCHANGED <<files, entries, seen, now, started, filterVars, bootVars>>

\* time passes; only the moments at which a handler is about to read the
\* clock (new Date() in loadUserHistory's catch block and in
\* appendToUserHistory) need telling apart, and only clock values that differ
\* from every timestamp taken so far by their order
ClockValueUsed ==
    \/ \E u \in Paths : \E i \in 1..Len(files[u]) :
          files[u][i].t \in {"**Created:**", "### Session"} /\ files[u][i].n = now
    \/ \E r \in Slots : \E i \in 1..Len(req[r].pending) :
          req[r].pending[i].t \in {"**Created:**", "### Session"} /\ req[r].pending[i].n = now
Tick ==
    /\ now < MaxClock
    /\ \E r \in Slots : req[r].pc \in {"reading", "streaming"}
    /\ ClockValueUsed
    /\ now' = now + 1
    /\ UNCHANGED <<files, entries, seen, started, req, filterVars, bootVars>>

Next ==
    \/ CheckEvmAddress \/ CheckApiKey \/ Listen
    \/ InitializeUserDataDirOk \/ InitializeUserDataDirFails
    \/ Tick
    \/ \E r \in Slots :
        \/ PaymentBlocked(r) \/ DiagnoseReject(r) \/ DiagnoseAccept(r) \/ HistoryRequest(r)
        \/ ReadFileOk(r) \/ ReadFileFails(r) \/ WriteFileOk(r) \/ WriteFileFails(r)
        \/ ChatSendOk(r) \/ ChatSendFails(r)
        \/ StreamChunk(r) \/ StreamThrows(r) \/ StreamEnds(r)
        \/ AppendFileOk(r) \/ AppendFileFails(r)
        \/ Close(r)

Spec == Init /\ [][Next]_vars

\* the top-level code of a module runs to its end: no step of the startup
\* waits for anything
SpecStartup ==
    Spec /\ WF_vars(CheckEvmAddress) /\ WF_vars(CheckApiKey) /\ WF_vars(Listen)

\* --------------------------------------------- the filter run on its own
RawLine(t, n) == Ln(t, "raw", n)
RawLines ==
    { RawLine("### Session", 1), RawLine("**Symptoms Reported:**", 0),
      RawLine("**Additional Health Context:**", 0),
      RawLine("**Diagnosis & Recommendations:**", 0),
      RawLine("**Symptoms Reported:** **Diagnosis & Recommendations:**", 0),
      RawLine("---", 0), RawLine("", 0), RawLine("cough", 0) }
\* beginnings of a raw log: nothing, a header, a header whose identifier
\* holds the text of the symptoms marker or of the diagnosis marker
RawHeaders ==
    { << >>,
      << RawLine("# Medical History - User", 1), RawLine("", 0), RawLine("**Created:**", 0) >>,
      << RawLine("# Medical History - User **Symptoms Reported:**", 0), RawLine("", 0),
         RawLine("**Created:**", 0) >>,
      << RawLine("# Medical History - User **Diagnosis & Recommendations:**", 0), RawLine("", 0),
         RawLine("**Created:**", 0) >> }
\* logs as the store writes them
StoredLogs ==
    { TextCat(initialContent(1, 0), sessionEntry(1, <<Cough>>, EmptyResponse, << >>)),
      TextCat(TextCat(initialContent(1, 0),
                      sessionEntry(1, <<Cough>>, <<Ln("Based on", "model", 1)>>, <<Asthma>>)),
              sessionEntry(2, <<Fever>>, <<Ln("rest", "model", 0)>>, << >>)) }
\* logs as loadUserHistory creates them, one for each form of header
FreshLogs ==
    { h \o << Blank, Separator, Blank, SessionHistoryLabel, Blank, Blank >> :
        h \in RawHeaders \ { << >> } }
RawLogs ==
    StoredLogs \cup FreshLogs \cup
    { h \o b : h \in RawHeaders,
               b \in UNION { [1..k -> RawLines] : k \in 0..MaxBodyLen } }

InitFilter ==
    /\ InitServer
    /\ env = [EVM_ADDRESS |-> "set", OPENROUTER_API_KEY |-> "set"] /\ boot = "start"
    /\ dir = "absent"
    /\ fPc = "scan" /\ fIn \in RawLogs /\ fPos = 1 /\ fSt = ScanStart
    /\ fOut = << >> /\ fOut2 = << >>

\* one iteration of the for loop of extractUserProvidedHistory
FilterScanLine ==
    /\ fPc = "scan" /\ fPos <= Len(fIn)
    /\ fSt' = ScanLine(fSt, fIn[fPos])
    /\ fPos' = fPos + 1
    /\ UNCHANGED <<fPc, fIn, fOut, fOut2, serverVars, bootVars>>

\* after the loop: the last session, the header, the return value
FilterReturn ==
    /\ fPc = "scan" /\ fPos > Len(fIn)
    /\ fOut' = Reconstruct(fIn, FlushLast(fSt))
    /\ fPc' = "returned"
    /\ UNCHANGED <<fIn, fPos, fSt, fOut2, serverVars, bootVars>>

\* the returned view is filtered again
FilterAgain ==
    /\ fPc = "returned"
    /\ fOut2' = extractUserProvidedHistory(fOut)
    /\ fPc' = "refiltered"
    /\ UNCHANGED <<fIn, fPos, fSt, fOut, serverVars, bootVars>>

NextFilter == FilterScanLine \/ FilterReturn \/ FilterAgain

SpecFilter == InitFilter /\ [][NextFilter]_vars

\* =================================================================== claims
Loaded(rq) == rq.pc \in {"sending", "streaming", "appending"}
             \/ (rq.pc = "done" /\ rq.outcome \in
                    {"send_error", "stream_error", "append_error", "completed"})
Lines(text) == {text[i] : i \in 1..Len(text)}
\* text holds the lines of part, all of them, next to each other and in order
ContainsRun(text, part) ==
    \E k \in 0..(Len(text) - Len(part)) :
        \A i \in 1..Len(part) : text[k + i] = part[i]
\* the number of lines of a text at which the grammar starts an entry
CountEntryStarts(text) ==
    Cardinality({i \in 1..Len(text) : MatchesSessionStart(text[i])})

\* C1: the prior-context text of every prompt (the filtered view of a log
\* built by load and appends) holds no character that came from a
\* model_output field.
C1_NoModelOutputInPrompt ==
    \A r \in Slots : Loaded(req[r]) =>
        \A line \in Lines(req[r].userProvidedHistory) : line.o # "model"

\* C2: for a log whose entries have no malformed diagnosis marker, the
\* filtered view has one block per entry, and the block of an entry holds all
\* lines of its symptoms and of its health context, verbatim and in order.
NoMalformedDiagnosisMarker(entry) ==
    \A line \in Lines(entry.symptoms) \cup Lines(entry.healthHistory) :
        ~IncludesDiagnosisMarker(line)
C2_UserFieldsVerbatim ==
    \A u \in Paths :
        (files[u] # NoFile /\ \A i \in 1..Len(entries[u]) : NoMalformedDiagnosisMarker(entries[u][i]))
        => LET secs == Sections(files[u]) IN
            /\ Len(secs) = Len(entries[u])
            /\ \A i \in 1..Len(entries[u]) :
                /\ ContainsRun(secs[i], entries[u][i].symptoms)
                /\ Truthy(entries[u][i].healthHistory)
                      => ContainsRun(secs[i], entries[u][i].healthHistory)

\* C3: a handler whose model stream raised an error (chat.send rejected, or
\* the stream threw after zero or more relayed chunks) has appended no
\* Session Entry: it never called appendToUserHistory, and unless another
\* handler wrote the log meanwhile, the log is the text load returned to it.
C3_NoEntryAfterStreamError ==
    \A r \in Slots :
        (req[r].pc = "done" /\ req[r].outcome \in {"stream_error", "send_error"})
        => /\ req[r].nAppends = 0
           /\ \A i \in 1..Len(entries[filePath(req[r].effectiveUserId)]) :
                 entries[filePath(req[r].effectiveUserId)][i].by # req[r].serial
           /\ ~req[r].dirty => files[filePath(req[r].effectiveUserId)] = req[r].fullHistoryMd
\* a stream failed after a chunk was relayed, over a log that holds an entry
C3_Witness ==
    \E r \in Slots :
        /\ req[r].pc = "done" /\ req[r].outcome = "stream_error" /\ ~req[r].dirty
        /\ \E i \in 1..Len(req[r].out) : req[r].out[i].k = "chunk"
        /\ Len(entries[filePath(req[r].effectiveUserId)]) > 0

\* C4: a POST whose symptoms field is missing or "" is answered 400 by the
\* step that takes it, and that step generates no identifier, reads and
\* creates no log, calls no model and appends nothing: the store is unchanged.
C4_RejectedBeforeSideEffects ==
    [][\A r \in Slots :
        (req[r].pc = "idle" /\ req'[r].pc # "idle" /\ req'[r].ep \in {"diagnose", "diagnose-test"}
            /\ req'[r].outcome # "payment_required" /\ ~Truthy(req'[r].symptoms))
        => /\ req'[r].pc = "done" /\ req'[r].status = 400
           /\ req'[r].effectiveUserId = 0 /\ req'[r].modelCalls = 0 /\ req'[r].nAppends = 0
           /\ req'[r].fullHistoryMd = << >> /\ req'[r].pending = << >>
           /\ files' = files /\ entries' = entries /\ seen' = seen]_vars
\* a request with symptoms "" and a userId was rejected
C4_Witness ==
    \E r \in Slots :
        /\ req[r].outcome = "input_error" /\ req[r].status = 400
        /\ Len(req[r].symptoms) = 1 /\ req[r].userId # 0

\* C5: a log changes only by its creation and by appending at its end: every
\* step leaves the text of an existing log a prefix of its new text.
C5_AppendOnly ==
    [][\A u \in Paths : files[u] # NoFile =>
        /\ Len(files'[u]) >= Len(files[u])
        /\ SubSeq(files'[u], 1, Len(files[u])) = files[u]]_vars

\* C6 as stated: filtering a filtered view returns that view, nothing added
\* or removed.
C6_FilterIdempotent ==
    fPc = "refiltered" => Chars(fOut2) = Chars(fOut)

\* C6 as amended: filtering the filtered view of a log whose header holds no
\* field marker returns the same header and the same blocks in the same
\* order, except that every block holding a field marker is followed by blank
\* lines it did not have: one, two for the last block.
HasFieldMarker(text) ==
    \E line \in Lines(text) : IncludesSymptomsMarker(line) \/ IncludesHealthMarker(line)
PaddedSections(secs) ==
    [i \in 1..Len(secs) |->
        secs[i] \o (IF ~HasFieldMarker(secs[i]) THEN << >>
                    ELSE IF i = Len(secs) THEN <<Blank, Blank>> ELSE <<Blank>>)]
C6_RefilterAddsBlankLines ==
    (fPc = "refiltered" /\ ~HasFieldMarker(Header(fIn)))
    => Chars(fOut2) = Chars(Reconstruct(fIn, PaddedSections(Sections(fIn))))
\* a view of two blocks was filtered again and the result differs from it
C6_Witness ==
    /\ fPc = "refiltered" /\ ~HasFieldMarker(Header(fIn))
    /\ Len(Sections(fIn)) >= 2
    /\ Chars(fOut2) # Chars(fOut)

\* C7: the answer to a request that failed in the log store (load failed, or
\* append failed after the stream completed) differs from the answer the
\* same endpoint gives when the model provider failed.  The answer is the
\* status code and the fixed texts written after the relayed chunks; the
\* error's own message, which the code passes through, names no kind.
IsNotChunk(w) == w.k # "chunk"
Report(rq) ==
    LET notices == SelectSeq(rq.out, IsNotChunk)
    IN  [status |-> rq.status, texts |-> [i \in 1..Len(notices) |-> notices[i].k]]
StorageFailure(rq) == rq.pc = "done" /\ rq.outcome \in {"load_error", "append_error"}
ModelFailure(rq) == rq.pc = "done" /\ rq.outcome \in {"send_error", "stream_error"}
C7_StorageErrorDistinct ==
    \A r, q \in Slots :
        (StorageFailure(req[r]) /\ ModelFailure(req[q]) /\ req[r].ep = req[q].ep)
        => Report(req[r]) # Report(req[q])

\* C8: the step that ends a load (of an interaction or of a history read)
\* without a storage error returns the log verbatim and leaves it unchanged
\* when the log existed as the load read it, and otherwise leaves a log that
\* is only the header and the empty Session History section and returns
\* exactly that text.
LoadEnds(r) ==
    /\ req[r].pc \in {"reading", "writing"}
    /\ req'[r].pc \notin {"reading", "writing"}
    /\ req'[r].outcome # "load_error"
ExistedWhenRead(r) ==
    IF req[r].pc = "reading" THEN files[filePath(req[r].effectiveUserId)] # NoFile
    ELSE req[r].existedAtRead
C8_LoadVerbatimOrCreates ==
    [][\A r \in Slots : LoadEnds(r) =>
        LET u == req[r].effectiveUserId
            p == filePath(u)
        IN  IF ExistedWhenRead(r)
            THEN files'[p] = files[p] /\ req'[r].fullHistoryMd = files[p]
            ELSE /\ \E ts \in 0..MaxClock : files'[p] = initialContent(u, ts)
                 /\ req'[r].fullHistoryMd = files'[p]]_vars

\* C9: an interaction without an identifier runs under a generated token that
\* no earlier request used and whose log it created; an interaction with an
\* identifier runs under that identifier, which its trailer repeats; two
\* completed interactions under one identifier have both their entries in
\* that identifier's log; a first interaction without health context leaves
\* one entry, without the health-context section.
Completed(rq) == rq.pc = "done" /\ rq.outcome = "completed"
HasEntryOf(u, rq) == \E i \in 1..Len(entries[u]) : entries[u][i].by = rq.serial
C9_IdentifierResolution ==
    \A r \in Slots : Completed(req[r]) =>
        LET u == req[r].effectiveUserId IN
        /\ req[r].userId # 0 => u = req[r].userId
        /\ req[r].userId = 0 =>
              /\ u \in Uuids
              /\ \A q \in Slots : req[q].serial < req[r].serial => req[q].effectiveUserId # u
        /\ req[r].out[Len(req[r].out)] = W("--- USER_ID: ---", << >>, u, "")
        /\ files[filePath(u)] # NoFile
        /\ \A q \in Slots \ {r} :
              (Completed(req[q]) /\ req[q].effectiveUserId = u)
              => HasEntryOf(filePath(u), req[r]) /\ HasEntryOf(filePath(u), req[q])
        /\ (req[r].serial = 1 /\ started = 1 /\ ~Truthy(req[r].healthHistory))
              => /\ Len(entries[filePath(u)]) = 1
                 /\ CountEntryStarts(files[filePath(u)]) = 1
                 /\ \A line \in Lines(files[filePath(u)]) : ~IncludesHealthMarker(line)
                 /\ \A v \in Paths \ {filePath(u)} : files[v] = NoFile

\* C10: a log created by load to which N well-formed entries were appended
\* holds exactly N entry-start lines, and so does the text a later load of
\* it returns.
WellFormedEntry(entry) ==
    \A line \in Lines(entry.symptoms) \cup Lines(entry.healthHistory) \cup Lines(entry.diagnosis) :
        ~MatchesSessionStart(line)
IsChunk(w) == w.k = "chunk"
Streamed(rq) == rq.pc \in {"streaming", "appending"}
                \/ (rq.pc = "done" /\ rq.outcome \in {"stream_error", "append_error", "completed"})
C11_ChunksInProductionOrder ==
    \A r \in Slots : Streamed(req[r]) =>
        LET written == SelectSeq(req[r].out, IsChunk)
            withContent == SelectSeq(req[r].produced, Truthy)
        IN  /\ Len(req[r].produced) = req[r].chunkCount
            /\ [i \in 1..Len(written) |-> written[i].text] = withContent
            /\ SubSeq(req[r].out, 1, Len(written)) = written
\* two chunks with different content were relayed while the stream is open
C11_Witness ==
    \E r \in Slots :
        /\ req[r].pc = "streaming" /\ Len(req[r].produced) = 2
        /\ Truthy(req[r].produced[1]) /\ Truthy(req[r].produced[2])
        /\ req[r].produced[1] # req[r].produced[2]
        /\ Len(req[r].out) = 2

\* C12 as stated: every interaction whose model stream completed without
\* error ends its output with the terminal marker of its identifier, written
\* exactly once.
IsTrailer(w) == w.k = "--- USER_ID: ---"
EndsWithOneTrailer(rq) ==
    /\ Len(rq.out) > 0
    /\ rq.out[Len(rq.out)] = W("--- USER_ID: ---", << >>, rq.effectiveUserId, "")
    /\ Len(SelectSeq(rq.out, IsTrailer)) = 1
StreamCompleted(rq) == rq.pc = "done" /\ rq.outcome \in {"completed", "append_error"}
NoticeTexts == {"[Error during streaming]", "[Chunks received before error]",
                "[Response length before error]"}
C13_PartialOutputThenNotice ==
    \A r \in Slots :
        /\ (req[r].pc = "done" /\ req[r].outcome = "stream_error") =>
              LET relayed == SelectSeq(req[r].produced, Truthy)
                  k == Len(relayed)
                  out == req[r].out
              IN  /\ Len(out) > k
                  /\ \A i \in 1..k : out[i] = W("chunk", relayed[i], 0, "")
                  /\ out[k + 1].k = "[Error during streaming]"
                  /\ \A i \in (k + 1)..Len(out) : out[i].k \in NoticeTexts
        /\ (req[r].pc = "done" /\ req[r].outcome = "send_error") =>
              /\ Len(req[r].out) = 1
              /\ ~IsChunk(req[r].out[1]) /\ ~IsTrailer(req[r].out[1])
\* a stream of /diagnose threw after one chunk had been relayed
C13_Witness ==
    \E r \in Slots :
        /\ req[r].pc = "done" /\ req[r].outcome = "stream_error" /\ req[r].ep = "diagnose"
        /\ Len(SelectSeq(req[r].out, IsChunk)) = 1
        /\ Len(req[r].out) = 4

\* the step in which a handler's appendFile resolves
Appends(r) == req[r].pc = "appending" /\ req'[r].pc = "done" /\ req'[r].outcome = "completed"
\* the lines a step put at the end of a log, from the log's last (unfinished)
\* line on
AddedLines(old, new) == SubSeq(new, Len(old), Len(new))
\* a text without its leading and trailing empty lines
TrimBlankLines(text) ==
    LET full == {i \in 1..Len(text) : text[i].t # ""}
    IN  IF full = {} THEN << >>
        ELSE SubSeq(text, CHOOSE i \in full : \A j \in full : i <= j,
                          CHOOSE i \in full : \A j \in full : i >= j)
HealthPresent(rq) == Truthy(rq.healthHistory)

\* C14 as stated: the lines one append adds are exactly: the Session line,
\* a blank line, the symptoms marker, the symptoms text, a blank line, the
\* health-context marker, text and a blank line only when a health context is
\* present, the diagnosis marker, the model output, a blank line, the
\* separator; no other lines (blank lines around the entry are not counted).
ClaimedEntryLines(ts, rq) ==
    << Ln("### Session", "sys", ts), Blank, SymptomsMarker >> \o rq.symptoms \o << Blank >>
    \o (IF HealthPresent(rq) THEN << HealthMarker >> \o rq.healthHistory \o << Blank >> ELSE << >>)
    \o << DiagnosisMarker >> \o rq.response \o << Blank, Separator >>
C14_EntryIsGrammarLines ==
    [][\A r \in Slots : Appends(r) =>
        LET u == filePath(req[r].effectiveUserId) IN
        \E ts \in 0..MaxClock :
            Chars(TrimBlankLines(AddedLines(files[u], files'[u])))
                = Chars(ClaimedEntryLines(ts, req[r]))]_vars

\* C14 as amended: one append adds, after the end of the log, exactly: a
\* blank line, the Session line, a blank line, the symptoms marker, the
\* symptoms text, a blank line, the health-context marker and text only when
\* a health context is present, two blank lines, the diagnosis marker, the
\* model output, a blank line, the separator and a blank line; the text ends
\* with a line break.
WrittenEntryLines(ts, rq) ==
    << Blank, Ln("### Session", "sys", ts), Blank, SymptomsMarker >> \o rq.symptoms \o << Blank >>
    \o (IF HealthPresent(rq) THEN << HealthMarker >> \o rq.healthHistory ELSE << >>)
    \o << Blank, Blank, DiagnosisMarker >> \o rq.response \o << Blank, Separator, Blank, Blank >>
C14_EntryLinesAsWritten ==
    [][\A r \in Slots : Appends(r) =>
        LET u == filePath(req[r].effectiveUserId) IN
        /\ SubSeq(files'[u], 1, Len(files[u])) = files[u]
        /\ \E ts \in 0..MaxClock :
              Chars(AddedLines(files[u], files'[u])) = Chars(WrittenEntryLines(ts, req[r]))]_vars
\* entries with and without a health context have been appended
C14_Witness ==
    \E u, v \in Paths :
        /\ \E i \in 1..Len(entries[u]) : Truthy(entries[u][i].healthHistory)
        /\ \E i \in 1..Len(entries[v]) : ~Truthy(entries[v][i].healthHistory)

\* C15: a step of a handler working for identifier A leaves the log of every
\* other identifier B unchanged.
Steps(r) == req'[r].pc # req[r].pc
IdentifierOf(r) ==
    IF req[r].effectiveUserId # 0 THEN req[r].effectiveUserId ELSE req'[r].effectiveUserId
C15_LogsIndependent ==
    [][\A r \in Slots : Steps(r) =>
        \A b \in UserIds \ {IdentifierOf(r)} :
            files'[filePath(b)] = files[filePath(b)]]_vars

\* C16: a POST /diagnose that the payment gate blocks is answered 402 by the
\* step that takes it; that step generates no identifier, reads and creates
\* no log, calls no model and appends nothing, and the blocked request takes
\* no further step but its release.  Every /diagnose request that is in the
\* interaction flow was let through by the gate.
Blocked(rq) == rq.outcome = "payment_required"
InFlow(rq) == rq.pc \in {"reading", "writing", "sending", "streaming", "appending"}
              \/ rq.effectiveUserId # 0 \/ rq.modelCalls > 0 \/ rq.nAppends > 0
C16_BlockedNeverReachesFlow ==
    [][\A r \in Slots :
        /\ (req[r].pc = "idle" /\ Blocked(req'[r])) =>
              /\ req'[r].ep = "diagnose" /\ req'[r].pc = "done" /\ req'[r].status = 402
              /\ ~InFlow(req'[r])
              /\ req'[r].fullHistoryMd = << >> /\ req'[r].pending = << >> /\ req'[r].out = << >>
              /\ files' = files /\ entries' = entries /\ seen' = seen
        /\ Blocked(req[r]) => (req'[r] = req[r] \/ req'[r] = IdleRequest)
        /\ (req'[r].ep = "diagnose" /\ InFlow(req'[r])) => ~Blocked(req'[r])]_vars
\* a request with symptoms was blocked while another interaction had started
C16_Witness ==
    \E r, q \in Slots :
        /\ Blocked(req[r]) /\ Truthy(req[r].symptoms) /\ req[r].status = 402
        /\ req[q].ep = "diagnose" /\ InFlow(req[q])

\* C17: when EVM_ADDRESS or OPENROUTER_API_KEY is absent at startup, the
\* process never listens and takes no request, and it exits.
ConfigMissing == EnvMissing(env.EVM_ADDRESS) \/ EnvMissing(env.OPENROUTER_API_KEY)
C17_ExitsBeforeListening ==
    /\ [](ConfigMissing => (boot # "listening" /\ started = 0))
    /\ (ConfigMissing ~> boot = "exited")
\* the address was there, the credential was not, and the process has exited
C17_Witness ==
    /\ ~EnvMissing(env.EVM_ADDRESS) /\ EnvMissing(env.OPENROUTER_API_KEY)
    /\ boot = "exited"

\* what the scan takes a line for: its tests in the order the loop makes them
LineKind(line) ==
    IF MatchesSessionStart(line) THEN "start"
    ELSE IF IncludesSymptomsMarker(line) THEN "symptoms"
    ELSE IF IncludesHealthMarker(line) THEN "health"
    ELSE IF IncludesDiagnosisMarker(line) THEN "diagnosis"
    ELSE IF IsSeparatorLine(line) THEN "separator"
    ELSE "text"
\* text holds a diagnosis marker after which only lines of the given kinds come
DiagnosisMarkerThenOnly(text, kinds) ==
    \E i \in 1..Len(text) :
        /\ LineKind(text[i]) = "diagnosis"
        /\ \A j \in (i + 1)..Len(text) : LineKind(text[j]) \in kinds
FlushRule(st) ==
    IF Len(st.currentSession) > 0 /\ ~st.inDiagnosisSection
    THEN st.userProvidedSections \o << st.currentSession >>
    ELSE st.userProvidedSections

\* C18 as stated: at the end of the scan the accumulator joins the completed
\* blocks iff it is non-empty and the state is not inside-diagnosis; so a
\* log whose final entry has a diagnosis marker with no separator line (and
\* no entry start) after it yields a view without the final entry.
C18_UnclosedDiagnosisDropsEntry ==
    fPc = "returned" =>
        /\ Chars(fOut) = Chars(Reconstruct(fIn, FlushRule(fSt)))
        /\ DiagnosisMarkerThenOnly(fIn, {"text", "diagnosis", "symptoms", "health"})
              => Chars(fOut) = Chars(Reconstruct(fIn, fSt.userProvidedSections))

\* C18 as amended: the same flush rule; a log that ends inside-diagnosis,
\* that is, whose last diagnosis marker is followed by no separator line, no
\* entry start and no symptoms or health-context marker, yields a view
\* without the final entry, its symptoms and health context included, while
\* the same log followed by a separator line or by an entry-start line
\* yields a view that holds the entry as a block.
SessionLine == Ln("### Session", "raw", 1)
C18_EndInsideDiagnosisDropsEntry ==
    fPc = "returned" =>
        /\ Chars(fOut) = Chars(Reconstruct(fIn, FlushRule(fSt)))
        /\ DiagnosisMarkerThenOnly(fIn, {"text", "diagnosis"}) <=> fSt.inDiagnosisSection
        /\ fSt.inDiagnosisSection =>
              /\ Chars(fOut) = Chars(Reconstruct(fIn, fSt.userProvidedSections))
              /\ Len(fSt.currentSession) > 0 =>
                    /\ Sections(fIn \o << Separator >>)
                          = fSt.userProvidedSections \o << fSt.currentSession >>
                    /\ Sections(fIn \o << SessionLine >>)
                          = fSt.userProvidedSections \o << fSt.currentSession, << SessionLine >> >>
\* a log ended inside the diagnosis of an entry that reported "cough"
C18_Witness ==
    /\ fPc = "returned" /\ fSt.inDiagnosisSection
    /\ \E i \in 1..Len(fSt.currentSession) : fSt.currentSession[i].t = "cough"
    /\ \E i \in 1..Len(fSt.currentSession) : MatchesSessionStart(fSt.currentSession[i])

\* the line at position j of a text is a line that the scan takes as a
\* diagnosis marker line (it holds the marker, is no entry-start line and
\* holds no symptoms or health-context marker), or lies after one with
\* nothing but ordinary lines between
InDiagnosisSpan(text, j) ==
    \/ LineKind(text[j]) = "diagnosis"
    \/ /\ LineKind(text[j]) = "text"
       /\ \E i \in 1..(j - 1) :
            /\ LineKind(text[i]) = "diagnosis"
            /\ \A k \in (i + 1)..(j - 1) : LineKind(text[k]) = "text"
\* the same with every line that holds the diagnosis marker taken as a
\* diagnosis marker line
AfterDiagnosisMarker(text, j) ==
    \/ IncludesDiagnosisMarker(text[j])
    \/ /\ LineKind(text[j]) = "text"
       /\ \E i \in 1..(j - 1) :
            /\ IncludesDiagnosisMarker(text[i])
            /\ \A k \in (i + 1)..(j - 1) : LineKind(text[k]) = "text"
ScansLine == fPc = "scan" /\ fPos' = fPos + 1
Returns == fPc = "scan" /\ fPc' = "returned"
AccumulatorsUnchanged ==
    /\ fSt'.currentSession = fSt.currentSession
    /\ fSt'.userProvidedSections = fSt.userProvidedSections

\* C19 as stated: for every input, the iteration that scans a line holding
\* the diagnosis marker, or a line between one and the next separator or
\* marker line, adds nothing to the accumulator, and no line holding the
\* diagnosis marker is in the output: not in its blocks and not in its
\* header, whose lines are no lines of a diagnosis span either.
C19_DiagnosisSpanNeverEmitted ==
    [][/\ (ScansLine /\ AfterDiagnosisMarker(fIn, fPos)) => AccumulatorsUnchanged
       /\ Returns =>
            /\ \A i \in 1..Len(fOut') : ~IncludesDiagnosisMarker(fOut'[i])
            /\ HeaderMatches(fIn) => \A j \in 1..3 : ~AfterDiagnosisMarker(fIn, j)]_vars

\* C19 as amended: the iteration that scans a line of a diagnosis span adds
\* nothing to the accumulator, and the output after its header consists of
\* the framing lines and of accumulated lines, none of them a line the scan
\* takes as a diagnosis marker line; the header of the output is the first
\* three lines of the input whenever they match the header pattern,
\* whatever markers they hold.
FramingLines == {"", "---", "## Session History"}
C19_DiagnosisSpanNeverAccumulated ==
    [][/\ (ScansLine /\ InDiagnosisSpan(fIn, fPos)) => AccumulatorsUnchanged
       /\ Returns =>
            LET hdr == IF HeaderMatches(fIn) THEN SubSeq(fIn, 1, 3) ELSE << Blank >>
                accumulated == UNION {Lines(block) : block \in Lines(FlushRule(fSt))}
            IN  /\ Chars(SubSeq(fOut', 1, Len(hdr))) = Chars(hdr)
                /\ \A i \in (Len(hdr) + 1)..Len(fOut') :
                      /\ LineKind(fOut'[i]) # "diagnosis"
                      /\ fOut'[i].t \in FramingLines \/ fOut'[i] \in accumulated]_vars
\* "cough" stood in a symptoms section and after a diagnosis marker; the
\* view holds it once
C19_Witness ==
    /\ fPc = "returned"
    /\ \E j \in 1..Len(fIn) : InDiagnosisSpan(fIn, j) /\ fIn[j].t = "cough"
    /\ Cardinality({i \in 1..Len(fIn) : fIn[i].t = "cough"}) = 2
    /\ Cardinality({i \in 1..Len(fOut) : fOut[i].t = "cough"}) = 1

\* C20: a load whose read failed although the log existed (a failure other
\* than not-found) ends with a storage error for its caller and leaves the
\* log as it was; it does not end by handing out a newly created log.
ReadFailedOnExistingLog(r) == req[r].pc = "writing" /\ req[r].existedAtRead
C20_ReadFailurePropagates ==
    [][\A r \in Slots :
        (ReadFailedOnExistingLog(r) /\ req'[r].pc # "writing") =>
            LET p == filePath(req[r].effectiveUserId)
            IN  /\ req'[r].pc = "done" /\ req'[r].outcome = "load_error"
                /\ req'[r].status = 500
                /\ files'[p] = files[p]]_vars

\* the texts of the chunks written to the caller, concatenated in the order
\* written
RECURSIVE ConcatChunks(_)
ConcatChunks(writes) ==
    IF Len(writes) = 0 THEN EmptyResponse
    ELSE TextCat(ConcatChunks(SubSeq(writes, 1, Len(writes) - 1)), writes[Len(writes)].text)
RelayedText(rq) == ConcatChunks(SelectSeq(rq.out, IsChunk))

\* C21: the entry that the append of a completed stream adds to the log holds,
\* as its model output, the concatenation in order of the chunks relayed to
\* the caller in that interaction, and as its symptoms and health context the
\* values of the request; the history of appended entries records the same.
C21_EntryHoldsRelayedOutput ==
    [][\A r \in Slots : Appends(r) =>
        LET u == filePath(req[r].effectiveUserId)
            last == entries'[u][Len(entries'[u])]
            entry == [response |-> RelayedText(req'[r]), symptoms |-> req'[r].symptoms,
                      healthHistory |-> req'[r].healthHistory]
        IN  /\ \E ts \in 0..MaxClock :
                 AddedLines(files[u], files'[u]) = WrittenEntryLines(ts, entry)
            /\ Len(entries'[u]) = Len(entries[u]) + 1
            /\ last.diagnosis = RelayedText(req'[r])
            /\ last.symptoms = req'[r].symptoms
            /\ last.healthHistory = req'[r].healthHistory]_vars
\* an interaction with a health context completed after two chunks with
\* content were relayed
C21_Witness ==
    \E r \in Slots :
        /\ Completed(req[r]) /\ Truthy(req[r].healthHistory)
        /\ Len(SelectSeq(req[r].out, IsChunk)) = 2
        /\ HasEntryOf(filePath(req[r].effectiveUserId), req[r])

\* the positions of a handler of an interaction, and the moves between them
FlowOrder ==
    { <<"idle", "reading">>, <<"idle", "done">>,
      <<"reading", "writing">>, <<"reading", "sending">>,
      <<"writing", "sending">>, <<"writing", "done">>,
      <<"sending", "streaming">>, <<"sending", "done">>,
      <<"streaming", "streaming">>, <<"streaming", "appending">>, <<"streaming", "done">>,
      <<"appending", "done">>, <<"done", "idle">> }
NumChunks(rq) == Len(SelectSeq(rq.out, IsChunk))
NumTrailers(rq) == Len(SelectSeq(rq.out, IsTrailer))

\* C22: the steps of one interaction come in one order, each after the one
\* before it has finished: the model is invoked in the step that ends the
\* load, with the filtered view of the loaded log; a chunk is relayed only
\* while the stream of the one model call is open and before the append is
\* issued; the append is issued only when the stream has ended, and no chunk
\* is relayed afterwards; the terminal marker is written only in the step in
\* which the append resolves, after the entry is in the log.
C22_StepOrder ==
    [][\A r \in Slots :
        LET a == req[r]
            b == req'[r]
            u == filePath(a.effectiveUserId)
        IN  ([a EXCEPT !.dirty = b.dirty] # b /\ b.ep \notin {"history", "none"}) =>
            /\ <<a.pc, b.pc>> \in FlowOrder
            /\ b.modelCalls # a.modelCalls =>
                  /\ a.pc \in {"reading", "writing"} /\ b.pc = "sending"
                  /\ a.modelCalls = 0 /\ b.modelCalls = 1
                  /\ b.fullHistoryMd = files'[u]
                  /\ b.userProvidedHistory = extractUserProvidedHistory(b.fullHistoryMd)
            /\ NumChunks(b) # NumChunks(a) =>
                  /\ a.pc = "streaming" /\ b.pc = "streaming"
                  /\ a.modelCalls = 1 /\ a.nAppends = 0
            /\ b.nAppends # a.nAppends =>
                  /\ a.pc = "streaming" /\ b.pc = "appending"
                  /\ a.nAppends = 0 /\ b.nAppends = 1
            /\ a.pc = "appending" => NumChunks(b) = NumChunks(a)
            /\ NumTrailers(b) # NumTrailers(a) =>
                  /\ a.pc = "appending" /\ b.pc = "done"
                  /\ a.nAppends = 1 /\ NumTrailers(a) = 0
                  /\ files'[u] = TextCat(files[u], a.pending)
                  /\ IsTrailer(b.out[Len(b.out)])]_vars
\* an interaction that loaded a log with an earlier entry went through all
\* its steps
C22_Witness ==
    \E r \in Slots :
        /\ Completed(req[r]) /\ req[r].modelCalls = 1 /\ req[r].nAppends = 1
        /\ CountEntryStarts(req[r].fullHistoryMd) = 1
        /\ NumChunks(req[r]) = 1 /\ NumTrailers(req[r]) = 1

\* the handler in slot r is the only one at work, and every earlier request
\* had ended before it was received
Alone(r) == started = req[r].serial /\ \A q \in Slots \ {r} : req[q].pc = "idle"
\* an accepted request of an interaction endpoint
IsInteraction(rq) == rq.ep \in {"diagnose", "diagnose-test"} /\ rq.effectiveUserId # 0

\* C23: a request invokes the model at most once and issues at most one
\* append, and does nothing more once it has ended; an interaction that does
\* not overlap any other changes the number of entries of its log by exactly
\* one if its stream completed and by none otherwise, and leaves the number
\* of entries of every other log as it is, so that the number of entries of
\* a log equals the number of interactions whose stream completed.
C23_OneEntryPerCompletedStream ==
    [][\A r \in Slots :
        LET a == req[r]
            b == req'[r]
            u == filePath(b.effectiveUserId)
        IN  /\ b.modelCalls <= 1 /\ b.nAppends <= 1
            /\ a.pc = "done" => (b = IdleRequest \/ b = [a EXCEPT !.dirty = b.dirty])
            /\ (Alone(r) /\ IsInteraction(b) /\ a.pc # "idle" /\ b.pc # "idle") =>
                  /\ \A v \in Paths \ {u} :
                        CountEntryStarts(files'[v]) = CountEntryStarts(files[v])
                  /\ CountEntryStarts(files'[u]) =
                        CountEntryStarts(files[u])
                        + (IF a.pc = "appending" /\ b.pc = "done" THEN 1 ELSE 0)]_vars
\* the same without the step in which the append of a completed stream fails
C23_ExceptAppendFailure ==
    [][\A r \in Slots :
        LET a == req[r]
            b == req'[r]
            u == filePath(b.effectiveUserId)
        IN  (Alone(r) /\ IsInteraction(b) /\ a.pc # "idle" /\ b.pc # "idle"
             /\ b.outcome # "append_error") =>
                  CountEntryStarts(files'[u]) =
                        CountEntryStarts(files[u])
                        + (IF a.pc = "appending" /\ b.pc = "done" THEN 1 ELSE 0)]_vars

\* the timestamps of the entries of a log, in the order of the entries
IsSessionLine(line) == line.t = "### Session" /\ line.o = "sys"
EntryTimestamps(text) ==
    LET starts == SelectSeq(text, IsSessionLine)
    IN  [i \in 1..Len(starts) |-> starts[i].n]
NonDecreasing(seq) == \A i \in 1..(Len(seq) - 1) : seq[i] <= seq[i + 1]

\* C24 as stated: in every reachable state the timestamps of the entries of
\* each log do not decrease from one entry to the next, also when two
\* interactions for the log overlapped.
C24_EntriesChronological ==
    \A u \in Paths : NonDecreasing(EntryTimestamps(files[u]))

\* C24 as amended: an entry appended by an interaction during which no other
\* handler wrote the log, from its load to its append, has a timestamp that
\* is not earlier than that of any entry before it and not later than the
\* clock, and it is put after the entries the log holds; a log whose entries
\* are out of order has had an entry appended by an interaction during which
\* another handler wrote it.
C24_ChronologicalUnlessOverlapped ==
    [][\A r \in Slots : Appends(r) =>
        LET u == filePath(req[r].effectiveUserId)
            old == EntryTimestamps(files[u])
            new == EntryTimestamps(files'[u])
        IN  /\ Len(new) = Len(old) + 1
            /\ SubSeq(new, 1, Len(old)) = old
            /\ new[Len(new)] <= now
            /\ ~req[r].dirty => \A i \in 1..Len(old) : old[i] <= new[Len(new)]
            /\ (NonDecreasing(old) /\ ~NonDecreasing(new)) => req[r].dirty]_vars
\* a log holds two entries with different timestamps, the second appended by
\* an interaction during which no other handler wrote the log
C24_Witness ==
    \E r \in Slots :
        /\ Completed(req[r]) /\ ~req[r].dirty
        /\ EntryTimestamps(files[filePath(req[r].effectiveUserId)]) = <<0, 1>>

\* text holds the diagnosis marker followed by the model output that the
\* interaction rq relayed and saved
HoldsOutputOf(text, rq) == ContainsRun(text, << DiagnosisMarker >> \o rq.response)

\* C25: the stored log is the raw log: after an interaction has appended its
\* entry, the log holds the model output of that entry in every later state,
\* and a history read that loads the log afterwards returns a text that
\* holds it.
C25_RawLogKeepsModelOutput ==
    \A r \in Slots : Completed(req[r]) =>
        LET u == filePath(req[r].effectiveUserId) IN
        /\ HoldsOutputOf(files[u], req[r])
        /\ \A q \in Slots :
              (req[q].pc = "done" /\ req[q].outcome = "history" /\ ~req[q].dirty
               /\ filePath(req[q].effectiveUserId) = u)
              => HoldsOutputOf(req[q].out[1].text, req[r])
\* the same for the interactions whose log no other handler wrote after
\* they had loaded it
C25_KeptUnlessOverwritten ==
    \A r \in Slots : (Completed(req[r]) /\ ~req[r].dirty) =>
        HoldsOutputOf(files[filePath(req[r].effectiveUserId)], req[r])

\* "\n\n---\n\n## Session History\n\n" after the header
EmptyBodyFrame == << "", "---", "", "## Session History", "", "" >>
TextsOf(text) == [i \in 1..Len(text) |-> text[i].t]
HeaderTexts(text) == IF HeaderMatches(text) THEN TextsOf(SubSeq(text, 1, 3)) ELSE << "" >>
NoEntry(text) == CountEntryStarts(text) = 0

\* C26 as stated: for a log with no entry the view is the header, the
\* separator and the Session History label with an empty body; the view of a
\* freshly created log is that log's text; for input without a matching
\* header the header part is empty.
C26_EmptyLogGivesEmptyBody ==
    fPc = "returned" =>
        /\ NoEntry(fIn) => TextsOf(fOut) = HeaderTexts(fIn) \o EmptyBodyFrame
        /\ fIn \in FreshLogs => TextsOf(fOut) = TextsOf(fIn)
        /\ ~HeaderMatches(fIn) => fOut[1].t = "" /\ TextsOf(SubSeq(fOut, 2, 5)) = SubSeq(EmptyBodyFrame, 1, 4)

\* C26 as amended: the same for a log none of whose lines, the header line
\* included, begins an entry or holds a symptoms or health-context marker,
\* and for a freshly created log whose identifier holds no such marker.
NoUserMarker(text) ==
    \A i \in 1..Len(text) : LineKind(text[i]) \notin {"start", "symptoms", "health"}
C26_NoUserMarkerGivesEmptyBody ==
    fPc = "returned" =>
        /\ NoUserMarker(fIn) => TextsOf(fOut) = HeaderTexts(fIn) \o EmptyBodyFrame
        /\ (fIn \in FreshLogs /\ NoUserMarker(fIn)) => TextsOf(fOut) = TextsOf(fIn)
        /\ ~HeaderMatches(fIn) => fOut[1].t = "" /\ TextsOf(SubSeq(fOut, 2, 5)) = SubSeq(EmptyBodyFrame, 1, 4)
\* the view of a freshly created log with an ordinary header has been returned
C26_Witness ==
    /\ fPc = "returned" /\ fIn \in FreshLogs /\ NoUserMarker(fIn)
    /\ fIn[1].t = "# Medical History - User"
    /\ TextsOf(fOut) = TextsOf(fIn)

\* an accepted request (an interaction or a history read) has ended with the
\* error report of a failed load and nothing else
FailedAtLoad(rq) ==
    /\ rq.status = 500 /\ rq.outcome = "load_error"
    /\ Len(rq.out) = 1
    /\ rq.out[1].k = (IF rq.ep = "history" THEN "error: Failed to load history"
                      ELSE "error: Internal server error")

\* C27: once the creation of the data directory has failed (the failure is
\* logged), the server is still listening and takes requests; a request that
\* is then loading cannot read a log, and its load ends only by failing; every
\* accepted request that has ended has ended with the error report of a
\* failed load; no model call was made, no append issued, and no log exists.
C27_DegradedModeFailsPerCall ==
    dir = "failed" =>
        /\ boot = "listening"
        /\ (started < MaxStarted /\ \E r \in Slots : req[r].pc = "idle")
              => ENABLED (\E r \in Slots : DiagnoseAccept(r))
                 /\ ENABLED (\E r \in Slots : HistoryRequest(r))
        /\ \A u \in Paths : files[u] = NoFile /\ entries[u] = << >>
        /\ \A r \in Slots :
              /\ req[r].pc \in {"idle", "reading", "writing", "done"}
              /\ req[r].modelCalls = 0 /\ req[r].nAppends = 0
              /\ req[r].pc = "reading" => ~ENABLED ReadFileOk(r) /\ ENABLED ReadFileFails(r)
              /\ req[r].pc = "writing" => ~ENABLED WriteFileOk(r) /\ ENABLED WriteFileFails(r)
              /\ (req[r].pc = "done" /\ req[r].effectiveUserId # 0) => FailedAtLoad(req[r])
\* after the failure an interaction and a history read have ended with the
\* error report
C27_Witness ==
    /\ dir = "failed"
    /\ \E r, q \in Slots :
          /\ req[r].pc = "done" /\ req[r].ep = "history" /\ FailedAtLoad(req[r])
          /\ req[q].pc = "done" /\ req[q].ep = "diagnose" /\ FailedAtLoad(req[q])

\* the flags of the scan that are true
FlagsSet(st) ==
    (IF st.inSymptomsSection THEN {"inside-symptoms"} ELSE {})
    \cup (IF st.inHealthContextSection THEN {"inside-health-context"} ELSE {})
    \cup (IF st.inDiagnosisSection THEN {"inside-diagnosis"} ELSE {})

\* C28: before and after every iteration of the scan at most one of the
\* three flags is true, and after the iteration for an entry-start line or
\* for a separator line none is.
C28_FlagsEncodeOneState ==
    fPc = "scan" =>
        /\ Cardinality(FlagsSet(fSt)) <= 1
        /\ fPos = 1 => FlagsSet(fSt) = {}
        /\ (fPos > 1 /\ (MatchesSessionStart(fIn[fPos - 1]) \/ IsSeparatorLine(fIn[fPos - 1])))
              => FlagsSet(fSt) = {}
\* the scan has been in each of the three states and is back in none after
\* a separator line
C28_Witness ==
    /\ fPc = "scan" /\ fPos = 5
    /\ LineKind(fIn[1]) = "symptoms" /\ LineKind(fIn[2]) = "health"
    /\ LineKind(fIn[3]) = "diagnosis" /\ LineKind(fIn[4]) = "separator"
    /\ FlagsSet(fSt) = {}

====
